---- MODULE Spec2Model ----
(***************************************************************************)
(* Model of the python project generator: the template registry            *)
(* (src/templates/__init__.py), the CLI driver (src/cli.py, src/main.py),  *)
(* the five archetype recipes (src/templates/*.py) and the scaffolding     *)
(* primitives of the ProjectTemplate base class.                           *)
(*                                                                         *)
(* Strings that the code only compares or interpolates are TLA+ strings.   *)
(* A project name, which the code inspects character by character, is a    *)
(* sequence of characters.  A path is a sequence of path components,       *)
(* relative to the working directory of the process.                       *)
(***************************************************************************)
EXTENDS Integers, Sequences, FiniteSets, TLC

VARIABLES
    pc,             \* position of the process inside main()/run_cli()
    fs,             \* the filesystem: existing path -> [kind, content]
    fs0,            \* the filesystem as it was when run_cli started
    project_type,   \* run_cli local: the key returned by get_project_type
    project_name,   \* run_cli local: the name returned by get_project_name
    project_path,   \* run_cli local: the path returned by get_project_path
    template_class, \* run_cli local: the class returned by get_template_class
    template,       \* run_cli local: the recipe instance
    gi,             \* index of the next step of template.generate()
    exc,            \* the exception in flight, or NoExc
    caught,         \* run_cli local: the exception bound by its handler
    registry,       \* the module-level dict TEMPLATE_REGISTRY
    calls,          \* log of the statements of generate() executed so far
    ui,             \* log of the calls to the display/prompt collaborators
    api             \* log of direct calls to the pure functions

vars == <<pc, fs, fs0, project_type, project_name, project_path,
          template_class, template, gi, exc, caught, registry, calls,
          ui, api>>

-----------------------------------------------------------------------------
(* Bounds *)

\* longest project name drawn for validate_project_name
MaxNameLen == 3
\* longest history of direct registry calls
MaxCalls == 2
\* longest history of direct calls of the primitives and of generate()
MaxPrimCalls == 2

-----------------------------------------------------------------------------
(* Characters and str methods used by validate_project_name *)

AsciiLetters == {"a", "Z"}
AsciiDigits  == {"7"}
\* U+00E9 (e acute) is a letter and U+0663 (arabic-indic three) a digit for
\* str.isalnum; neither belongs to [A-Za-z0-9_-]
NonAsciiAlnum == {"U+00E9", "U+0663"}
Punctuation  == {" ", ".", "!"}
Chars == AsciiLetters \cup AsciiDigits \cup NonAsciiAlnum \cup Punctuation
            \cup {"_", "-"}

\* the character class [A-Za-z0-9_-] of the specification
SpecCharset == AsciiLetters \cup AsciiDigits \cup {"_", "-"}

RECURSIVE str_replace_empty(_, _)
\* s.replace(old, "") for a one-character old
str_replace_empty(s, old) ==
    IF s = <<>> THEN <<>>
    ELSE IF Head(s) = old THEN str_replace_empty(Tail(s), old)
         ELSE <<Head(s)>> \o str_replace_empty(Tail(s), old)

\* c.isalnum() for one character: c.isalpha() or c.isdecimal() or
\* c.isdigit() or c.isnumeric(), by Unicode category
char_isalnum(c) == c \in AsciiLetters \cup AsciiDigits \cup NonAsciiAlnum

\* s.isalnum(): every character is alphanumeric and there is at least one
str_isalnum(s) ==
    /\ Len(s) >= 1
    /\ \A i \in 1..Len(s) : char_isalnum(s[i])

validate_project_name_NoStrip(name) == str_isalnum(name)

validate_project_name(name) ==
    str_isalnum(str_replace_empty(str_replace_empty(name, "_"), "-"))

RECURSIVE Str(_)
\* the Python str a sequence of characters stands for
Str(s) == IF s = <<>> THEN "" ELSE Head(s) \o Str(Tail(s))

-----------------------------------------------------------------------------
(* The registry: src/templates/__init__.py *)

\* class attributes name / description of the five recipe classes
ClassName ==
    [ RAGAgentTemplate          |-> "RAG Agent",
      FastAPITemplate           |-> "FastAPI Web API",
      DataScienceTemplate       |-> "Data Science/ML",
      AutomationTemplate        |-> "Task Automation",
      SimpleBoilerplateTemplate |-> "Simple Py Boilerplate" ]

ClassDescription ==
    [ RAGAgentTemplate          |-> "LangChain-based RAG agent with Streamlit UI, Qdrant, and Ollama",
      FastAPITemplate           |-> "REST API with FastAPI, database integration, and Docker support",
      DataScienceTemplate       |-> "ML project with scikit-learn, pandas, and model serving API",
      AutomationTemplate        |-> "Scripting and automation with CLI interface",
      SimpleBoilerplateTemplate |-> "Minimal Python project with testing infrastructure and main.py" ]

Classes == DOMAIN ClassName

TEMPLATE_REGISTRY_Dup ==
    << [key |-> "1", cls |-> "RAGAgentTemplate"],
       [key |-> "2", cls |-> "FastAPITemplate"],
       [key |-> "3", cls |-> "DataScienceTemplate"],
       [key |-> "4", cls |-> "AutomationTemplate"],
       [key |-> "5", cls |-> "AutomationTemplate"] >>

\* a dict keeps insertion order: the registry is the sequence of its items
TEMPLATE_REGISTRY ==
    << [key |-> "1", cls |-> "RAGAgentTemplate"],
       [key |-> "2", cls |-> "FastAPITemplate"],
       [key |-> "3", cls |-> "DataScienceTemplate"],
       [key |-> "4", cls |-> "AutomationTemplate"],
       [key |-> "5", cls |-> "SimpleBoilerplateTemplate"] >>

\* list(d.keys())
dict_keys(d) == [i \in 1..Len(d) |-> d[i].key]

\* the keys of the registry, as a set
RegistryKeys == {TEMPLATE_REGISTRY[i].key : i \in 1..Len(TEMPLATE_REGISTRY)}

\* key in d
dict_contains(d, k) == \E i \in 1..Len(d) : d[i].key = k

\* d[k], for k in d: the value of the last item stored under k
dict_getitem(d, k) ==
    d[CHOOSE i \in 1..Len(d) :
         /\ d[i].key = k
         /\ \A j \in 1..Len(d) : d[j].key = k => j <= i].cls

get_template_list_Sorted ==
    [i \in 1..Len(registry) |->
        [key         |-> registry[Len(registry) + 1 - i].key,
         name        |-> ClassName[registry[Len(registry) + 1 - i].cls],
         description |-> ClassDescription[registry[Len(registry) + 1 - i].cls]]]

get_template_list ==
    [i \in 1..Len(registry) |->
        [key         |-> registry[i].key,
         name        |-> ClassName[registry[i].cls],
         description |-> ClassDescription[registry[i].cls]]]

NoExc == [type |-> "None", msg |-> "", cause |-> "None"]

Raise(type, msg) == [type |-> type, msg |-> msg, cause |-> "None"]

get_template_class_Default(template_key) ==
    IF ~ dict_contains(registry, template_key)
    THEN [raised |-> FALSE, exc |-> NoExc, value |-> "RAGAgentTemplate"]
    ELSE [raised |-> FALSE, exc |-> NoExc,
          value |-> dict_getitem(registry, template_key)]

\* the result of a call: the exception raised, or the value returned
get_template_class(template_key) ==
    IF ~ dict_contains(registry, template_key)
    THEN [raised |-> TRUE,
          exc    |-> Raise("ValueError", "Unknown template: " \o template_key),
          value  |-> "None"]
    ELSE [raised |-> FALSE, exc |-> NoExc,
          value |-> dict_getitem(registry, template_key)]

-----------------------------------------------------------------------------
(* src/constants.py *)

DEV_DEPENDENCIES ==
    << "pytest>=7.4.0", "pytest-cov>=4.1.0", "black>=23.7.0",
       "ruff>=0.0.285", "ipykernel>=7.1.0" >>

PYTHON_VERSION == ">=3.10"

BUILD_SYSTEM == [requires |-> <<"hatchling">>, build_backend |-> "hatchling.build"]

\* each folder is the sequence of the components of its relative path
COMMON_FOLDERS ==
    << <<"notebooks">>, <<"artifacts", "wip">>, <<"artifacts", "completed">>,
       <<"reports">>, <<"research">>, <<"quality">>, <<"scripts">>,
       <<"data">>, <<"tests">> >>

-----------------------------------------------------------------------------
(* The filesystem, as pathlib and open() see it.  fs maps every existing   *)
(* path to its entry; the working directory <<>> always exists.            *)

Dir == [kind |-> "dir", content |-> <<>>]
File(content) == [kind |-> "file", content |-> content]

exists(f, p) == p \in DOMAIN f
is_dir(f, p) == p \in DOMAIN f /\ f[p].kind = "dir"
is_file(f, p) == p \in DOMAIN f /\ f[p].kind = "file"

Prefix(p, n) == SubSeq(p, 1, n)
Parent(p) == Prefix(p, Len(p) - 1)
IsUnder(p, q) == Len(p) > Len(q) /\ Prefix(p, Len(q)) = q

RECURSIVE PathStr(_)
\* str(path)
PathStr(p) ==
    IF p = <<>> THEN "."
    ELSE IF Len(p) = 1 THEN p[1]
         ELSE PathStr(Parent(p)) \o "/" \o p[Len(p)]

\* lengths of the proper prefixes of p that are not directories
BadPrefixes(f, p) == {n \in 0..(Len(p) - 1) : ~ is_dir(f, Prefix(p, n))}

\* the error the kernel reports while walking to the parent of p
WalkError(f, p) ==
    IF BadPrefixes(f, p) = {} THEN "None"
    ELSE LET n == CHOOSE m \in BadPrefixes(f, p) :
                      \A k \in BadPrefixes(f, p) : m <= k
         IN  IF exists(f, Prefix(p, n)) THEN "NotADirectoryError"
                                         ELSE "FileNotFoundError"

OsError(type, p) ==
    Raise(type,
          (CASE type = "FileNotFoundError"  -> "[Errno 2] No such file or directory: '"
             [] type = "FileExistsError"    -> "[Errno 17] File exists: '"
             [] type = "NotADirectoryError" -> "[Errno 20] Not a directory: '"
             [] type = "IsADirectoryError"  -> "[Errno 21] Is a directory: '")
          \o PathStr(p) \o "'")

Ok(f) == [fs |-> f, exc |-> NoExc]
Fail(f, e) == [fs |-> f, exc |-> e]

\* with open(p, "w") as fh: fh.write(content)
open_w(f, p, content) ==
    IF WalkError(f, p) # "None" THEN Fail(f, OsError(WalkError(f, p), p))
    ELSE IF is_dir(f, p) THEN Fail(f, OsError("IsADirectoryError", p))
    ELSE Ok([q \in DOMAIN f \cup {p} |-> IF q = p THEN File(content) ELSE f[q]])

\* Path(p).touch(): an existing entry of either kind is left as it is
touch(f, p) ==
    IF WalkError(f, p) # "None" THEN Fail(f, OsError(WalkError(f, p), p))
    ELSE IF exists(f, p) THEN Ok(f)
    ELSE Ok([q \in DOMAIN f \cup {p} |-> IF q = p THEN File(<<>>) ELSE f[q]])

\* Path(p).mkdir(parents=True, exist_ok=True)
mkdir_p(f, p) ==
    IF WalkError(f, p) = "NotADirectoryError"
    THEN Fail(f, OsError("NotADirectoryError", p))
    ELSE IF is_file(f, p) THEN Fail(f, OsError("FileExistsError", p))
    ELSE LET made == {Prefix(p, n) : n \in 1..Len(p)} \ DOMAIN f
         IN  Ok([q \in DOMAIN f \cup made |-> IF q \in made THEN Dir ELSE f[q]])

-----------------------------------------------------------------------------
(* The scaffolding primitives of the ProjectTemplate base class            *)
(* (src/templates/base.py).  self is the recipe instance; every primitive  *)
(* maps a filesystem to the filesystem it leaves and the exception raised. *)

\* ProjectTemplate.__init__(project_name, project_path)
ProjectTemplate_init(cls, name, path) ==
    [cls |-> cls, project_name |-> name, project_path |-> path,
     common_folders |-> COMMON_FOLDERS]

NoTemplate ==
    [cls |-> "None", project_name |-> <<>>, project_path |-> <<>>,
     common_folders |-> <<>>]

\* raise RuntimeError(f"{what}: {e}") from e
Wrap(what, e) ==
    [type |-> "RuntimeError", msg |-> what \o ": " \o e.msg, cause |-> e.type]

RECURSIVE OrderedUnion(_)
\* the folders in first-occurrence order, duplicates ignored
OrderedUnion(s) ==
    IF s = <<>> THEN <<>>
    ELSE LET init == OrderedUnion(Prefix(s, Len(s) - 1))
         IN  IF \E i \in 1..Len(init) : init[i] = s[Len(s)]
             THEN init ELSE Append(init, s[Len(s)])

RECURSIVE MkdirAll(_, _, _)
\* mkdir every folder in turn; stop at the first failure
MkdirAll(f, base, folders) ==
    IF folders = <<>> THEN Ok(f)
    ELSE LET r == mkdir_p(f, base \o Head(folders))
         IN  IF r.exc # NoExc THEN r
             ELSE MkdirAll(r.fs, base, Tail(folders))

\* folder has a subfolder among the folders being created
HasSubfolderInList(folder, all) == \E i \in 1..Len(all) : IsUnder(all[i], folder)

\* the directory d has a subdirectory on disk
HasActualSubdir(f, d) == \E q \in DOMAIN f : Len(q) > 0 /\ Parent(q) = d /\ f[q].kind = "dir"

RECURSIVE TouchMarkers(_, _, _, _)
\* place the zero-byte marker in every folder that is a leaf
TouchMarkers(f, base, folders, all) ==
    IF folders = <<>> THEN Ok(f)
    ELSE LET d == base \o Head(folders)
             r == IF HasSubfolderInList(Head(folders), all) \/ HasActualSubdir(f, d)
                  THEN Ok(f)
                  ELSE touch(f, d \o <<".gitkeep">>)
         IN  IF r.exc # NoExc THEN r
             ELSE TouchMarkers(r.fs, base, Tail(folders), all)

create_folder_structure_NoWrap(self, f, additional_folders) ==
    LET folders == OrderedUnion(self.common_folders \o additional_folders)
        made    == MkdirAll(f, self.project_path, folders)
    IN  IF made.exc # NoExc THEN made
        ELSE TouchMarkers(made.fs, self.project_path, folders, folders)

create_folder_structure_NoMarkers(self, f, additional_folders) ==
    LET folders == OrderedUnion(self.common_folders \o additional_folders)
        made    == MkdirAll(f, self.project_path, folders)
    IN  IF made.exc # NoExc
        THEN Fail(made.fs, Wrap("Failed to create folder structure", made.exc))
        ELSE made

create_folder_structure_NoExistOk(self, f, additional_folders) ==
    LET folders == OrderedUnion(self.common_folders \o additional_folders)
        made    == MkdirAll(f, self.project_path, folders)
        marked  == IF made.exc # NoExc THEN made
                   ELSE TouchMarkers(made.fs, self.project_path, folders, folders)
    IN  IF is_dir(f, self.project_path \o folders[1])
        THEN Fail(f, Wrap("Failed to create folder structure",
                          OsError("FileExistsError", self.project_path \o folders[1])))
        ELSE IF marked.exc # NoExc
        THEN Fail(marked.fs, Wrap("Failed to create folder structure", marked.exc))
        ELSE marked

create_folder_structure(self, f, additional_folders) ==
    LET folders == OrderedUnion(self.common_folders \o additional_folders)
        made    == MkdirAll(f, self.project_path, folders)
        marked  == IF made.exc # NoExc THEN made
                   ELSE TouchMarkers(made.fs, self.project_path, folders, folders)
    IN  IF marked.exc # NoExc
        THEN Fail(marked.fs, Wrap("Failed to create folder structure", marked.exc))
        ELSE marked

pyproject_toml_Reversed(name, dependencies) ==
    << "[project]",
       "name = \"" \o Str(name) \o "\"",
       "requires-python = \"" \o PYTHON_VERSION \o "\"",
       "dependencies = [" >>
    \o [i \in 1..Len(dependencies) |-> dependencies[Len(dependencies) + 1 - i]]
    \o << "]", "[dependency-groups]", "dev = [" >>
    \o [i \in 1..Len(DEV_DEPENDENCIES) |-> "\"" \o DEV_DEPENDENCIES[i] \o "\""]
    \o << "]", "[build-system]" >>
    \o [i \in 1..Len(BUILD_SYSTEM.requires) |->
           "requires = \"" \o BUILD_SYSTEM.requires[i] \o "\""]
    \o << "build-backend = \"" \o BUILD_SYSTEM.build_backend \o "\"" >>

\* the manifest, one line per element
pyproject_toml(name, dependencies) ==
    << "[project]",
       "name = \"" \o Str(name) \o "\"",
       "requires-python = \"" \o PYTHON_VERSION \o "\"",
       "dependencies = [" >>
    \o dependencies
    \o << "]", "[dependency-groups]", "dev = [" >>
    \o [i \in 1..Len(DEV_DEPENDENCIES) |-> "\"" \o DEV_DEPENDENCIES[i] \o "\""]
    \o << "]", "[build-system]" >>
    \o [i \in 1..Len(BUILD_SYSTEM.requires) |->
           "requires = \"" \o BUILD_SYSTEM.requires[i] \o "\""]
    \o << "build-backend = \"" \o BUILD_SYSTEM.build_backend \o "\"" >>

create_pyproject_toml(self, f, dependencies) ==
    LET r == open_w(f, self.project_path \o <<"pyproject.toml">>,
                    pyproject_toml(self.project_name, dependencies))
    IN  IF r.exc # NoExc
        THEN Fail(r.fs, Wrap("Failed to create pyproject.toml", r.exc))
        ELSE r

create_readme_TrailingNewline(self, f, content) ==
    open_w(f, self.project_path \o <<"README.md">>, content \o <<"">>)

create_readme(self, f, content) ==
    open_w(f, self.project_path \o <<"README.md">>, content)

gitignore_content ==
    << "__pycache__/", "*.py[cod]", ".venv/", "venv/", ".pytest_cache/",
       ".coverage", ".vscode/", ".idea/" >>

create_gitignore(self, f) ==
    open_w(f, self.project_path \o <<".gitignore">>, gitignore_content)

test_basic_content ==
    << "import pytest", "def test_project_structure():",
       "def test_placeholder():" >>

create_basic_test(self, f) ==
    LET r == open_w(f, self.project_path \o <<"tests", "test_basic.py">>,
                    test_basic_content)
    IN  IF r.exc # NoExc THEN r
        ELSE touch(r.fs, self.project_path \o <<"tests", "__init__.py">>)

create_src_init(self, f) ==
    open_w(f, self.project_path \o <<"src", "__init__.py">>,
           << "\"\"\"" \o Str(self.project_name) \o "\"\"\"" >>)

-----------------------------------------------------------------------------
(* The five recipes.  generate() is the sequence of the statements it      *)
(* executes; the text of a starter file is stood for by its first line.    *)

Step(op, path, folders, content) ==
    [op |-> op, path |-> path, folders |-> folders, content |-> content]

ConsolePrint(text)    == Step("console.print", <<>>, <<>>, <<text>>)
CreateFolders(extra)  == Step("create_folder_structure", <<>>, extra, <<>>)
CreatePyproject(deps) == Step("create_pyproject_toml", <<>>, <<>>, deps)
WriteFile(path, text) == Step("open_w", path, <<>>, text)
TouchFile(path)       == Step("touch", path, <<>>, <<>>)
CreateSrcInit         == Step("create_src_init", <<>>, <<>>, <<>>)
CreateReadme(text)    == Step("create_readme", <<>>, <<>>, text)
CreateGitignore       == Step("create_gitignore", <<>>, <<>>, <<>>)
CreateBasicTest       == Step("create_basic_test", <<>>, <<>>, <<>>)

RAGAgentTemplate_create_streamlit_app_Undeclared ==
    << WriteFile(<<"app", "app.py">>, <<"import streamlit as st">>) >>

RAGAgentTemplate_create_streamlit_app ==
    << WriteFile(<<"streamlit_app", "app.py">>, <<"import streamlit as st">>) >>

RAGAgentTemplate_create_agent_module ==
    << WriteFile(<<"src", "agents", "rag_agent.py">>, <<"\"\"\"RAG Agent implementation\"\"\"">>),
       TouchFile(<<"src", "agents", "__init__.py">>) >>

RAGAgentTemplate_create_data_generation_script ==
    << WriteFile(<<"scripts", "generate_data.py">>, <<"#!/usr/bin/env python3">>) >>

RAGAgentTemplate_create_env_example ==
    << WriteFile(<<".env.example">>, <<"# Qdrant Configuration">>) >>

RAGAgentTemplate_generate(self) ==
    << ConsolePrint("[cyan]Creating RAG Agent project...[/cyan]"),
       CreateFolders(<< <<"src">>, <<"src", "agents">>, <<"src", "vectorstore">>,
                        <<"streamlit_app">> >>),
       CreatePyproject(<< "\"langchain>=0.1.0\"", "\"langchain-community>=0.0.20\"",
                          "\"streamlit>=1.29.0\"", "\"qdrant-client>=1.7.0\"",
                          "\"ollama>=0.1.0\"", "\"python-dotenv>=1.0.0\"",
                          "\"sentence-transformers>=2.2.0\"" >>) >>
    \o RAGAgentTemplate_create_streamlit_app
    \o RAGAgentTemplate_create_agent_module
    \o RAGAgentTemplate_create_data_generation_script
    \o RAGAgentTemplate_create_env_example
    \o << CreateSrcInit,
          CreateReadme(<< "# " \o Str(self.project_name),
                          "A RAG (Retrieval-Augmented Generation) agent built with LangChain and Streamlit." >>),
          CreateGitignore,
          CreateBasicTest,
          ConsolePrint("[green]RAG Agent project created successfully![/green]") >>

FastAPITemplate_create_main_app ==
    << WriteFile(<<"src", "main.py">>, <<"from fastapi import FastAPI">>),
       TouchFile(<<"src", "api", "__init__.py">>),
       TouchFile(<<"src", "models", "__init__.py">>),
       TouchFile(<<"src", "services", "__init__.py">>),
       TouchFile(<<"src", "db", "__init__.py">>) >>

FastAPITemplate_create_dockerfile ==
    << WriteFile(<<"Dockerfile">>, <<"FROM python:3.11-slim">>) >>

FastAPITemplate_create_docker_compose ==
    << WriteFile(<<"docker-compose.yml">>, <<"version: '3.8'">>) >>

FastAPITemplate_generate_NoDocker(self) ==
    << ConsolePrint("[cyan]Creating FastAPI project...[/cyan]"),
       CreateFolders(<< <<"src">>, <<"src", "api">>, <<"src", "models">>,
                        <<"src", "services">>, <<"src", "db">> >>),
       CreatePyproject(<< "\"fastapi>=0.104.0\"", "\"uvicorn[standard]>=0.24.0\"",
                          "\"sqlalchemy>=2.0.0\"", "\"alembic>=1.12.0\"",
                          "\"pydantic>=2.4.0\"", "\"pydantic-settings>=2.0.0\"",
                          "\"python-jose[cryptography]>=3.3.0\"",
                          "\"passlib[bcrypt]>=1.7.4\"",
                          "\"python-multipart>=0.0.6\"" >>) >>
    \o FastAPITemplate_create_main_app
    \o FastAPITemplate_create_docker_compose
    \o << CreateSrcInit,
          CreateReadme(<< "# " \o Str(self.project_name),
                          "A FastAPI web application with database integration and authentication." >>),
          CreateGitignore,
          CreateBasicTest,
          ConsolePrint("[green]FastAPI project created successfully![/green]") >>

FastAPITemplate_generate_NamedImage(self) ==
    << ConsolePrint("[cyan]Creating FastAPI project...[/cyan]"),
       CreateFolders(<< <<"src">>, <<"src", "api">>, <<"src", "models">>,
                        <<"src", "services">>, <<"src", "db">> >>),
       CreatePyproject(<< "\"fastapi>=0.104.0\"", "\"uvicorn[standard]>=0.24.0\"",
                          "\"sqlalchemy>=2.0.0\"", "\"alembic>=1.12.0\"",
                          "\"pydantic>=2.4.0\"", "\"pydantic-settings>=2.0.0\"",
                          "\"python-jose[cryptography]>=3.3.0\"",
                          "\"passlib[bcrypt]>=1.7.4\"",
                          "\"python-multipart>=0.0.6\"" >>) >>
    \o FastAPITemplate_create_main_app
    \o << WriteFile(<<"Dockerfile">>, <<"FROM python:3.11-slim", "LABEL name=" \o Str(self.project_name)>>) >>
    \o FastAPITemplate_create_docker_compose
    \o << CreateSrcInit,
          CreateReadme(<< "# " \o Str(self.project_name),
                          "A FastAPI web application with database integration and authentication." >>),
          CreateGitignore,
          CreateBasicTest,
          ConsolePrint("[green]FastAPI project created successfully![/green]") >>

FastAPITemplate_generate(self) ==
    << ConsolePrint("[cyan]Creating FastAPI project...[/cyan]"),
       CreateFolders(<< <<"src">>, <<"src", "api">>, <<"src", "models">>,
                        <<"src", "services">>, <<"src", "db">> >>),
       CreatePyproject(<< "\"fastapi>=0.104.0\"", "\"uvicorn[standard]>=0.24.0\"",
                          "\"sqlalchemy>=2.0.0\"", "\"alembic>=1.12.0\"",
                          "\"pydantic>=2.4.0\"", "\"pydantic-settings>=2.0.0\"",
                          "\"python-jose[cryptography]>=3.3.0\"",
                          "\"passlib[bcrypt]>=1.7.4\"",
                          "\"python-multipart>=0.0.6\"" >>) >>
    \o FastAPITemplate_create_main_app
    \o FastAPITemplate_create_dockerfile
    \o FastAPITemplate_create_docker_compose
    \o << CreateSrcInit,
          CreateReadme(<< "# " \o Str(self.project_name),
                          "A FastAPI web application with database integration and authentication." >>),
          CreateGitignore,
          CreateBasicTest,
          ConsolePrint("[green]FastAPI project created successfully![/green]") >>

DataScienceTemplate_create_data_pipeline ==
    << WriteFile(<<"src", "data", "loader.py">>, <<"\"\"\"Data loading and processing utilities\"\"\"">>),
       TouchFile(<<"src", "data", "__init__.py">>),
       TouchFile(<<"src", "features", "__init__.py">>),
       TouchFile(<<"src", "models", "__init__.py">>) >>

DataScienceTemplate_create_model_training ==
    << WriteFile(<<"src", "models", "train.py">>, <<"\"\"\"Model training script\"\"\"">>) >>

DataScienceTemplate_create_api_server_AtApi ==
    << WriteFile(<<"src", "api">>, <<"\"\"\"Model serving API\"\"\"">>) >>

DataScienceTemplate_create_api_server ==
    << WriteFile(<<"src", "models", "serve.py">>, <<"\"\"\"Model serving API\"\"\"">>) >>

DataScienceTemplate_generate(self) ==
    << ConsolePrint("[cyan]Creating Data Science project...[/cyan]"),
       CreateFolders(<< <<"src">>, <<"src", "data">>, <<"src", "features">>,
                        <<"src", "models">>, <<"models">>, <<"data", "raw">>,
                        <<"data", "processed">> >>),
       CreatePyproject(<< "\"numpy>=1.24.0\"", "\"pandas>=2.0.0\"",
                          "\"scikit-learn>=1.3.0\"", "\"matplotlib>=3.7.0\"",
                          "\"seaborn>=0.12.0\"", "\"jupyter>=1.0.0\"",
                          "\"jupyterlab>=4.0.0\"", "\"fastapi>=0.104.0\"",
                          "\"uvicorn[standard]>=0.24.0\"", "\"joblib>=1.3.0\"" >>) >>
    \o DataScienceTemplate_create_data_pipeline
    \o DataScienceTemplate_create_model_training
    \o DataScienceTemplate_create_api_server
    \o << CreateSrcInit,
          CreateReadme(<< "# " \o Str(self.project_name),
                          "A Data Science and Machine Learning project with end-to-end pipeline." >>),
          CreateGitignore,
          CreateBasicTest,
          ConsolePrint("[green]Data Science project created successfully![/green]") >>

AutomationTemplate_create_cli_interface ==
    << WriteFile(<<"src", "cli.py">>, <<"#!/usr/bin/env python3">>) >>

AutomationTemplate_create_example_tasks ==
    << WriteFile(<<"src", "tasks", "file_organizer.py">>, <<"\"\"\"File organization task\"\"\"">>),
       WriteFile(<<"src", "tasks", "web_scraper.py">>, <<"\"\"\"Web scraping task example\"\"\"">>),
       TouchFile(<<"src", "tasks", "__init__.py">>) >>

AutomationTemplate_generate_Reordered(self) ==
    << ConsolePrint("[cyan]Creating Automation project...[/cyan]"),
       CreateFolders(<< <<"src">>, <<"src", "tasks">>, <<"logs">> >>),
       CreatePyproject(<< "\"click>=8.1.0\"", "\"requests>=2.31.0\"",
                          "\"beautifulsoup4>=4.12.0\"", "\"python-dotenv>=1.0.0\"",
                          "\"schedule>=1.2.0\"", "\"pyyaml>=6.0\"" >>) >>
    \o AutomationTemplate_create_cli_interface
    \o AutomationTemplate_create_example_tasks
    \o << CreateReadme(<< "# " \o Str(self.project_name),
                          "A Python automation and scripting project for repetitive tasks." >>),
          CreateSrcInit,
          CreateGitignore,
          CreateBasicTest,
          ConsolePrint("[green]Automation project created successfully![/green]") >>

AutomationTemplate_generate(self) ==
    << ConsolePrint("[cyan]Creating Automation project...[/cyan]"),
       CreateFolders(<< <<"src">>, <<"src", "tasks">>, <<"logs">> >>),
       CreatePyproject(<< "\"click>=8.1.0\"", "\"requests>=2.31.0\"",
                          "\"beautifulsoup4>=4.12.0\"", "\"python-dotenv>=1.0.0\"",
                          "\"schedule>=1.2.0\"", "\"pyyaml>=6.0\"" >>) >>
    \o AutomationTemplate_create_cli_interface
    \o AutomationTemplate_create_example_tasks
    \o << CreateSrcInit,
          CreateReadme(<< "# " \o Str(self.project_name),
                          "A Python automation and scripting project for repetitive tasks." >>),
          CreateGitignore,
          CreateBasicTest,
          ConsolePrint("[green]Automation project created successfully![/green]") >>

SimpleBoilerplateTemplate_create_main_py ==
    << WriteFile(<<"src", "main.py">>, <<"\"\"\"Main entry point for the project\"\"\"">>) >>

SimpleBoilerplateTemplate_generate_NoSrcInit(self) ==
    << ConsolePrint("[cyan]Creating Simple Py Boilerplate project...[/cyan]"),
       CreateFolders(<< <<"src">> >>),
       CreatePyproject(<< >>) >>
    \o SimpleBoilerplateTemplate_create_main_py
    \o << CreateReadme(<< "# " \o Str(self.project_name),
                          "A simple Python project boilerplate with testing infrastructure." >>),
          CreateGitignore,
          CreateBasicTest,
          ConsolePrint("[green]Simple Py Boilerplate project created successfully![/green]") >>

SimpleBoilerplateTemplate_generate(self) ==
    << ConsolePrint("[cyan]Creating Simple Py Boilerplate project...[/cyan]"),
       CreateFolders(<< <<"src">> >>),
       CreatePyproject(<< >>) >>
    \o SimpleBoilerplateTemplate_create_main_py
    \o << CreateSrcInit,
          CreateReadme(<< "# " \o Str(self.project_name),
                          "A simple Python project boilerplate with testing infrastructure." >>),
          CreateGitignore,
          CreateBasicTest,
          ConsolePrint("[green]Simple Py Boilerplate project created successfully![/green]") >>

RaiseStep(type, msg) == Step("raise", <<type>>, <<>>, <<msg>>)

ProjectTemplate_generate_Pass(self) == << >>

\* the base class: raise NotImplementedError("Subclasses must implement generate")
ProjectTemplate_generate(self) ==
    << RaiseStep("NotImplementedError", "Subclasses must implement generate") >>

\* template.generate(): dispatch on the class of the instance
generate(self) ==
    CASE self.cls = "RAGAgentTemplate"          -> RAGAgentTemplate_generate(self)
      [] self.cls = "FastAPITemplate"           -> FastAPITemplate_generate(self)
      [] self.cls = "DataScienceTemplate"       -> DataScienceTemplate_generate(self)
      [] self.cls = "AutomationTemplate"        -> AutomationTemplate_generate(self)
      [] self.cls = "SimpleBoilerplateTemplate" -> SimpleBoilerplateTemplate_generate(self)
      [] self.cls = "ProjectTemplate"           -> ProjectTemplate_generate(self)

\* the effect of one statement of generate() on the filesystem
Exec(self, f, s) ==
    CASE s.op = "console.print"           -> Ok(f)
      [] s.op = "create_folder_structure" -> create_folder_structure(self, f, s.folders)
      [] s.op = "create_pyproject_toml"   -> create_pyproject_toml(self, f, s.content)
      [] s.op = "open_w"                  -> open_w(f, self.project_path \o s.path, s.content)
      [] s.op = "touch"                   -> touch(f, self.project_path \o s.path)
      [] s.op = "create_src_init"         -> create_src_init(self, f)
      [] s.op = "create_readme"           -> create_readme(self, f, s.content)
      [] s.op = "create_gitignore"        -> create_gitignore(self, f)
      [] s.op = "create_basic_test"       -> create_basic_test(self, f)
      [] s.op = "raise"                   -> Fail(f, Raise(s.path[1], s.content[1]))

RECURSIVE RunSteps(_, _, _)
\* the statements in turn; the first exception ends the call
RunSteps(self, f, steps) ==
    IF steps = <<>> THEN Ok(f)
    ELSE LET r == Exec(self, f, Head(steps))
         IN  IF r.exc # NoExc THEN r
             ELSE RunSteps(self, r.fs, Tail(steps))

-----------------------------------------------------------------------------
(* src/ui.py: every call to a display or prompt collaborator is logged *)

Call(fn, arg) == [fn |-> fn, arg |-> arg]

display_welcome == << Call("display_welcome", "Python Project Generator") >>

\* one table row per record of get_template_list(), in its order
display_project_types ==
    [i \in 1..Len(get_template_list) |->
        Call("table.add_row",
             get_template_list[i].key \o ". " \o get_template_list[i].name)]
    \o << Call("console.print", "table") >>

display_success(name, path) ==
    << Call("display_success", Str(name) \o " " \o PathStr(path)) >>

display_error(message) == << Call("display_error", message) >>

Count(log, fn) == Cardinality({i \in 1..Len(log) : log[i].fn = fn})

-----------------------------------------------------------------------------
(* src/cli.py: run_cli, one action per statement *)

\* what the (possibly mocked) prompts may return
KeyInputs == {"1", "2", "3", "4", "5", "999", "", " ", " 1", "not-a-key"}

NameInputs ==
    { <<"a">>, <<"Z", "-", "7">>, <<"_">>, <<"U+00E9">>, <<>>, <<"a", " ", "Z">> }

PathInputs == { <<"proj">>, <<"out", "proj">> }

\* the filesystems run_cli may find
Root == (<<>> :> Dir)

\* the tree an earlier, successful run left at proj
PreviousRun(cls) ==
    LET self == ProjectTemplate_init(cls, <<"Z", "-", "7">>, <<"proj">>)
    IN  RunSteps(self, Root @@ (<<"proj">> :> Dir), generate(self)).fs

InitialFilesystems ==
    { Root,
      Root @@ (<<"proj">> :> Dir),
      Root @@ (<<"proj">> :> Dir) @@ (<<"proj", "existing_file.txt">> :> File(<<>>)),
      Root @@ (<<"proj">> :> Dir) @@ (<<"proj", "notebooks">> :> File(<<>>)),
      Root @@ (<<"proj">> :> Dir) @@ (<<"proj", "pyproject.toml">> :> Dir),
      Root @@ (<<"proj">> :> Dir) @@ (<<"proj", "src">> :> Dir)
           @@ (<<"proj", "src", "main.py">> :> Dir),
      Root @@ (<<"proj">> :> File(<<>>)),
      Root @@ (<<"out">> :> File(<<>>)),
      Root @@ (<<"proj">> :> Dir) @@ (<<"proj", "Dockerfile">> :> Dir),
      Root @@ (<<"proj">> :> Dir) @@ (<<"proj", "src">> :> Dir)
           @@ (<<"proj", "src", "cli.py">> :> Dir) }
    \cup {PreviousRun(cls) : cls \in Classes}

Init ==
    /\ pc = "start"
    /\ fs \in InitialFilesystems
    /\ fs0 = fs
    /\ project_type = ""
    /\ project_name = <<>>
    /\ project_path = <<>>
    /\ template_class = "None"
    /\ template = NoTemplate
    /\ gi = 0
    /\ exc = NoExc
    /\ caught = NoExc
    /\ registry = TEMPLATE_REGISTRY
    /\ calls = <<>>
    /\ ui = <<>>
    /\ api = <<>>

\* lines 54-58
Welcome ==
    /\ pc = "start"
    /\ ui' = ui \o display_welcome \o << Call("console.print", "") >>
                \o display_project_types \o << Call("console.print", "") >>
    /\ pc' = "get_project_type"
    /\ UNCHANGED <<registry, calls, fs, fs0, project_type, project_name, project_path,
                   template_class, template, gi, exc, caught, api>>

\* line 61
get_project_type ==
    /\ pc = "get_project_type"
    /\ \E k \in KeyInputs : project_type' = k
    /\ ui' = Append(ui, Call("Prompt.ask", "[cyan]Select project type[/cyan]"))
    /\ pc' = "get_project_name"
    /\ UNCHANGED <<registry, calls, fs, fs0, project_name, project_path,
                   template_class, template, gi, exc, caught, api>>

\* line 64
get_project_name ==
    /\ pc = "get_project_name"
    /\ \E n \in NameInputs : project_name' = n
    /\ ui' = Append(ui, Call("Prompt.ask", "[cyan]Enter project name[/cyan]"))
    /\ pc' = "validate"
    /\ UNCHANGED <<registry, calls, fs, fs0, project_type, project_path,
                   template_class, template, gi, exc, caught, api>>

Validate_NoReturn ==
    /\ pc = "validate"
    /\ IF ~ validate_project_name(project_name)
       THEN ui' = ui \o display_error("Error: Project name should contain only letters, numbers, hyphens, and underscores")
       ELSE ui' = ui
    /\ pc' = "get_project_path"
    /\ UNCHANGED <<registry, calls, fs, fs0, project_type, project_name, project_path,
                   template_class, template, gi, exc, caught, api>>

\* lines 67-69
Validate ==
    /\ pc = "validate"
    /\ IF ~ validate_project_name(project_name)
       THEN /\ ui' = ui \o display_error("Error: Project name should contain only letters, numbers, hyphens, and underscores")
            /\ pc' = "returned"
       ELSE /\ ui' = ui
            /\ pc' = "get_project_path"
    /\ UNCHANGED <<registry, calls, fs, fs0, project_type, project_name, project_path,
                   template_class, template, gi, exc, caught, api>>

\* line 72
get_project_path ==
    /\ pc = "get_project_path"
    /\ \E p \in PathInputs : project_path' = p
    /\ ui' = Append(ui, Call("Prompt.ask", "[cyan]Enter project path[/cyan]"))
    /\ pc' = "exists"
    /\ UNCHANGED <<registry, calls, fs, fs0, project_type, project_name,
                   template_class, template, gi, exc, caught, api>>

CheckExists_Always ==
    /\ pc = "exists"
    /\ pc' = "confirm_overwrite"
    /\ UNCHANGED <<registry, calls, fs, fs0, project_type, project_name, project_path,
                   template_class, template, gi, exc, caught, ui, api>>

\* line 75; Path.exists() is False when a parent is not a directory
CheckExists ==
    /\ pc = "exists"
    /\ IF WalkError(fs, project_path) = "None" /\ exists(fs, project_path)
       THEN pc' = "confirm_overwrite"
       ELSE pc' = "mkdir"
    /\ UNCHANGED <<registry, calls, fs, fs0, project_type, project_name, project_path,
                   template_class, template, gi, exc, caught, ui, api>>

confirm_overwrite_Ignore ==
    /\ pc = "confirm_overwrite"
    /\ \E answer \in BOOLEAN :
          /\ ui' = Append(ui, Call("Confirm.ask", IF answer THEN "True" ELSE "False"))
          /\ pc' = "mkdir"
    /\ UNCHANGED <<registry, calls, fs, fs0, project_type, project_name, project_path,
                   template_class, template, gi, exc, caught, api>>

\* lines 76-78; the log keeps the answer Confirm.ask returned
confirm_overwrite ==
    /\ pc = "confirm_overwrite"
    /\ \E answer \in BOOLEAN :
          IF ~ answer
          THEN /\ ui' = ui \o << Call("Confirm.ask", "False"),
                                 Call("console.print", "[yellow]Operation cancelled[/yellow]") >>
               /\ pc' = "returned"
          ELSE /\ ui' = Append(ui, Call("Confirm.ask", "True"))
               /\ pc' = "mkdir"
    /\ UNCHANGED <<registry, calls, fs, fs0, project_type, project_name, project_path,
                   template_class, template, gi, exc, caught, api>>

Mkdir_Clean ==
    /\ pc = "mkdir"
    /\ LET kept  == {q \in DOMAIN fs : ~ IsUnder(q, project_path)}
           empty == [q \in kept |-> fs[q]]
           r     == mkdir_p(empty, project_path)
       IN  /\ fs' = r.fs
           /\ exc' = r.exc
           /\ pc' = IF r.exc # NoExc THEN "raised" ELSE "get_template_class"
    /\ UNCHANGED <<registry, calls, fs0, project_type, project_name, project_path,
                   template_class, template, gi, caught, ui, api>>

\* line 81, outside the try block: a failure leaves run_cli
Mkdir ==
    /\ pc = "mkdir"
    /\ LET r == mkdir_p(fs, project_path)
       IN  /\ fs' = r.fs
           /\ exc' = r.exc
           /\ pc' = IF r.exc # NoExc THEN "raised" ELSE "get_template_class"
    /\ UNCHANGED <<registry, calls, fs0, project_type, project_name, project_path,
                   template_class, template, gi, caught, ui, api>>

LookupTemplate_Insert ==
    /\ pc = "get_template_class"
    /\ LET r == get_template_class(project_type)
       IN  /\ template_class' = r.value
           /\ exc' = r.exc
           /\ pc' = IF r.raised THEN "except" ELSE "construct"
           /\ registry' = IF r.raised
                          THEN Append(registry, [key |-> project_type,
                                                 cls |-> "RAGAgentTemplate"])
                          ELSE registry
    /\ UNCHANGED <<calls, fs, fs0, project_type, project_name, project_path,
                   template, gi, caught, ui, api>>

\* line 85
LookupTemplate ==
    /\ pc = "get_template_class"
    /\ LET r == get_template_class(project_type)
       IN  /\ template_class' = r.value
           /\ exc' = r.exc
           /\ pc' = IF r.raised THEN "except" ELSE "construct"
    /\ UNCHANGED <<registry, calls, fs, fs0, project_type, project_name, project_path,
                   template, gi, caught, ui, api>>

\* line 86
Construct ==
    /\ pc = "construct"
    /\ template' = ProjectTemplate_init(template_class, project_name, project_path)
    /\ gi' = 1
    /\ pc' = "generate"
    /\ UNCHANGED <<registry, calls, fs, fs0, project_type, project_name, project_path,
                   template_class, exc, caught, ui, api>>

GenerateStep_Rollback ==
    /\ pc = "generate"
    /\ LET s == generate(template)[gi]
           r == Exec(template, fs, s)
       IN  /\ fs' = IF r.exc # NoExc THEN fs0 ELSE r.fs
           /\ exc' = r.exc
           /\ ui' = IF s.op = "console.print"
                    THEN Append(ui, Call("console.print", s.content[1]))
                    ELSE ui
           /\ IF r.exc # NoExc
              THEN pc' = "except" /\ gi' = gi
              ELSE /\ gi' = gi + 1
                   /\ pc' = IF gi = Len(generate(template))
                            THEN "display_success" ELSE "generate"
    /\ calls' = Append(calls, generate(template)[gi])
    /\ UNCHANGED <<registry, fs0, project_type, project_name, project_path,
                   template_class, template, caught, api>>

\* line 87: the next statement of template.generate()
GenerateStep ==
    /\ pc = "generate"
    /\ LET s == generate(template)[gi]
           r == Exec(template, fs, s)
       IN  /\ fs' = r.fs
           /\ exc' = r.exc
           /\ ui' = IF s.op = "console.print"
                    THEN Append(ui, Call("console.print", s.content[1]))
                    ELSE ui
           /\ IF r.exc # NoExc
              THEN pc' = "except" /\ gi' = gi
              ELSE /\ gi' = gi + 1
                   /\ pc' = IF gi = Len(generate(template))
                            THEN "display_success" ELSE "generate"
    /\ calls' = Append(calls, generate(template)[gi])
    /\ UNCHANGED <<registry, fs0, project_type, project_name, project_path,
                   template_class, template, caught, api>>

\* line 90
DisplaySuccess ==
    /\ pc = "display_success"
    /\ ui' = ui \o display_success(project_name, project_path)
    /\ pc' = "returned"
    /\ UNCHANGED <<registry, calls, fs, fs0, project_type, project_name, project_path,
                   template_class, template, gi, exc, caught, api>>

ExceptHandler_Reraise ==
    /\ pc = "except"
    /\ pc' = "raised"
    /\ UNCHANGED <<registry, calls, fs, fs0, project_type, project_name, project_path,
                   template_class, template, gi, exc, caught, ui, api>>

ExceptHandler_ThenSuccess ==
    /\ pc = "except"
    /\ caught' = exc
    /\ exc' = NoExc
    /\ ui' = ui \o display_error("Error creating project: " \o exc.msg)
                \o << Call("console.print", "traceback.format_exc()") >>
                \o display_success(project_name, project_path)
    /\ pc' = "returned"
    /\ UNCHANGED <<registry, calls, fs, fs0, project_type, project_name, project_path,
                   template_class, template, gi, api>>

\* lines 92-95: the handler of the try block
ExceptHandler ==
    /\ pc = "except"
    /\ caught' = exc
    /\ exc' = NoExc
    /\ ui' = ui \o display_error("Error creating project: " \o exc.msg)
                \o << Call("console.print", "traceback.format_exc()") >>
    /\ pc' = "returned"
    /\ UNCHANGED <<registry, calls, fs, fs0, project_type, project_name, project_path,
                   template_class, template, gi, api>>

Next ==
    \/ Welcome
    \/ get_project_type
    \/ get_project_name
    \/ Validate
    \/ get_project_path
    \/ CheckExists
    \/ confirm_overwrite
    \/ Mkdir
    \/ LookupTemplate
    \/ Construct
    \/ GenerateStep
    \/ DisplaySuccess
    \/ ExceptHandler

Spec == Init /\ [][Next]_vars

-----------------------------------------------------------------------------
(* src/main.py: main() around run_cli, and Ctrl-C arriving during run_cli *)

\* the statements of run_cli, and those inside its try block (lines 84-90)
RunCliPcs ==
    {"start", "get_project_type", "get_project_name", "validate",
     "get_project_path", "exists", "confirm_overwrite", "mkdir",
     "get_template_class", "construct", "generate", "display_success", "except"}

TryPcs == {"get_template_class", "construct", "generate", "display_success"}

ExceptException_Bare(type) == TRUE

\* cli.py line 92, except Exception: KeyboardInterrupt derives from
\* BaseException only
ExceptException(type) == type \notin {"KeyboardInterrupt", "SystemExit"}

\* Ctrl-C while run_cli is at one of its statements
Interrupt ==
    /\ pc \in RunCliPcs
    /\ exc' = Raise("KeyboardInterrupt", "")
    /\ pc' = IF pc \in TryPcs /\ ExceptException("KeyboardInterrupt")
             THEN "except" ELSE "raised"
    /\ UNCHANGED <<registry, calls, fs, fs0, project_type, project_name, project_path,
                   template_class, template, gi, caught, ui, api>>

main_SwallowAll ==
    /\ pc = "raised"
    /\ pc' = "sys.exit(0)"
    /\ UNCHANGED <<registry, calls, fs, fs0, project_type, project_name, project_path,
                   template_class, template, gi, exc, caught, ui, api>>

\* main.py lines 12-16: KeyboardInterrupt ends the process with status 0,
\* any other exception leaves main
main ==
    /\ pc = "raised"
    /\ pc' = IF exc.type = "KeyboardInterrupt" THEN "sys.exit(0)" ELSE "uncaught"
    /\ UNCHANGED <<registry, calls, fs, fs0, project_type, project_name, project_path,
                   template_class, template, gi, exc, caught, ui, api>>

\* main.py line 13: run_cli returned
main_return ==
    /\ pc = "returned"
    /\ pc' = "main_returned"
    /\ UNCHANGED <<registry, calls, fs, fs0, project_type, project_name, project_path,
                   template_class, template, gi, exc, caught, ui, api>>

NextInterrupt ==
    \/ Next
    \/ Interrupt
    \/ main
    \/ main_return

SpecInterrupt == Init /\ [][NextInterrupt]_vars

-----------------------------------------------------------------------------
(* src/cli.py: get_project_type with the prompt of the rich library itself, *)
(* which returns the default on an empty line, strips any other line and    *)
(* asks again unless the stripped line is one of the choices.               *)

\* str.strip() of the lines drawn in KeyInputs
str_strip(typed) ==
    CASE typed = " "  -> ""
      [] typed = " 1" -> "1"
      [] OTHER        -> typed

\* line 18: valid_choices = list(TEMPLATE_REGISTRY.keys())
valid_choices == dict_keys(registry)

ProjectTypeDefault_Zero == "0"

\* line 22: default="1"
ProjectTypeDefault == "1"

\* Prompt.ask(prompt, choices=choices, default=default) on one typed line
Prompt_ask(typed, choices, default) ==
    IF typed = "" THEN [accepted |-> TRUE, value |-> default]
    ELSE IF \E i \in 1..Len(choices) : choices[i] = str_strip(typed)
         THEN [accepted |-> TRUE, value |-> str_strip(typed)]
         ELSE [accepted |-> FALSE, value |-> ""]

\* lines 16-23; a line that is not accepted leaves run_cli at the prompt
get_project_type_prompted ==
    /\ pc = "get_project_type"
    /\ \E typed \in KeyInputs :
          LET r == Prompt_ask(typed, valid_choices, ProjectTypeDefault)
          IN  IF r.accepted
              THEN /\ project_type' = r.value
                   /\ ui' = Append(ui, Call("Prompt.ask", "[cyan]Select project type[/cyan]"))
                   /\ pc' = "get_project_name"
              ELSE UNCHANGED <<project_type, ui, pc>>
    /\ UNCHANGED <<registry, calls, fs, fs0, project_name, project_path,
                   template_class, template, gi, exc, caught, api>>

NextPrompted ==
    \/ Welcome
    \/ get_project_type_prompted
    \/ get_project_name
    \/ Validate
    \/ get_project_path
    \/ CheckExists
    \/ confirm_overwrite
    \/ Mkdir
    \/ LookupTemplate
    \/ Construct
    \/ GenerateStep
    \/ DisplaySuccess
    \/ ExceptHandler

SpecPrompted == Init /\ [][NextPrompted]_vars

-----------------------------------------------------------------------------
(* Direct calls of the registry functions: the argument of the next call   *)
(* is held in project_type, the calls made so far are logged in api.       *)

Result(fn, arg, r) ==
    [fn |-> fn, arg |-> arg, raised |-> r.raised, exc |-> r.exc, value |-> r.value]

InitRegistry ==
    /\ pc = "call"
    /\ fs = Root
    /\ fs0 = Root
    /\ project_type \in KeyInputs
    /\ project_name = <<>>
    /\ project_path = <<>>
    /\ template_class = "None"
    /\ template = NoTemplate
    /\ gi = 0
    /\ exc = NoExc
    /\ caught = NoExc
    /\ registry = TEMPLATE_REGISTRY
    /\ calls = <<>>
    /\ ui = <<>>
    /\ api = <<>>

CallGetTemplateClass ==
    /\ pc = "call"
    /\ Len(api) < MaxCalls
    /\ api' = Append(api, Result("get_template_class", project_type,
                                 get_template_class(project_type)))
    /\ \E k \in KeyInputs : project_type' = k
    /\ UNCHANGED <<registry, calls, pc, fs, fs0, project_name, project_path, template_class,
                   template, gi, exc, caught, ui>>

CallGetTemplateList ==
    /\ pc = "call"
    /\ Len(api) < MaxCalls
    /\ api' = Append(api, Result("get_template_list", "",
                                 [raised |-> FALSE, exc |-> NoExc,
                                  value |-> get_template_list]))
    /\ UNCHANGED <<registry, calls, pc, fs, fs0, project_type, project_name, project_path,
                   template_class, template, gi, exc, caught, ui>>

NextRegistry == CallGetTemplateClass \/ CallGetTemplateList

SpecRegistry == InitRegistry /\ [][NextRegistry]_vars

-----------------------------------------------------------------------------
(* Direct calls of validate_project_name: the argument is drawn at the     *)
(* start and held in project_name.                                         *)

Names == UNION {[1..n -> Chars] : n \in 0..MaxNameLen}

InitValidate ==
    /\ pc = "call"
    /\ fs = Root
    /\ fs0 = Root
    /\ project_type = ""
    /\ project_name \in Names
    /\ project_path = <<>>
    /\ template_class = "None"
    /\ template = NoTemplate
    /\ gi = 0
    /\ exc = NoExc
    /\ caught = NoExc
    /\ registry = TEMPLATE_REGISTRY
    /\ calls = <<>>
    /\ ui = <<>>
    /\ api = <<>>

CallValidateProjectName ==
    /\ pc = "call"
    /\ api' = << [fn |-> "validate_project_name", arg |-> project_name,
                  value |-> validate_project_name(project_name)] >>
    /\ pc' = "returned"
    /\ UNCHANGED <<registry, calls, fs, fs0, project_type, project_name, project_path,
                   template_class, template, gi, exc, caught, ui>>

NextValidate == CallValidateProjectName

SpecValidate == InitValidate /\ [][NextValidate]_vars

-----------------------------------------------------------------------------
(* Direct calls of the primitives and of generate() on a recipe instance,  *)
(* as tests/test_templates.py and tests/integration make them.  Each call  *)
(* is logged in api with the filesystem it found.                          *)

\* the additional_folders arguments drawn
ExtraInputs ==
    { << >>,
      << <<"custom_folder">>, <<"another", "custom">> >>,
      << <<"src">>, <<"src", "api">>, <<"data", "raw">>, <<"notebooks">> >> }

DepInputs == { << >>, << "\"requests>=2.31.0\"", "\"click>=8.1.0\"" >> }

\* the readme strings drawn, one line per element; << >> is the empty string
ReadmeInputs == { << >>, << "# Test Project", "", "This is a test project." >> }

Proj == Root @@ (<<"proj">> :> Dir)

\* a plain file where a folder is to be created
FolderCollisions ==
    { Proj @@ (<<"proj", "notebooks">> :> File(<<>>)),
      Proj @@ (<<"proj", "tests">> :> File(<<>>)),
      Proj @@ (<<"proj", "artifacts">> :> Dir)
           @@ (<<"proj", "artifacts", "completed">> :> File(<<>>)),
      Proj @@ (<<"proj", "custom_folder">> :> File(<<>>)),
      Proj @@ (<<"proj", "src">> :> Dir) @@ (<<"proj", "src", "api">> :> File(<<>>)) }

PrimitiveFilesystems ==
    {Proj} \cup FolderCollisions
           \cup { Proj @@ (<<"proj", "pyproject.toml">> :> Dir),
                  Proj @@ (<<"proj", "notebooks">> :> File(<<>>))
                       @@ (<<"proj", "pyproject.toml">> :> Dir) }

PrimCall(fn, arg, before, r) ==
    [fn |-> fn, arg |-> arg, before |-> before, after |-> r.fs,
     raised |-> r.exc # NoExc, exc |-> r.exc]

InitPrimitives ==
    /\ pc = "call"
    /\ fs \in PrimitiveFilesystems
    /\ fs0 = fs
    /\ project_type = ""
    /\ project_name \in { <<"a">>, <<"Z", "-", "7">> }
    /\ project_path = <<"proj">>
    /\ template_class = "None"
    /\ template = NoTemplate
    /\ gi = 0
    /\ exc = NoExc
    /\ caught = NoExc
    /\ registry = TEMPLATE_REGISTRY
    /\ calls = <<>>
    /\ ui = <<>>
    /\ api = <<>>

\* ProjectTemplate("test_project", temp_project_dir)
BaseInstance == ProjectTemplate_init("ProjectTemplate", project_name, project_path)

PrimFrame ==
    UNCHANGED <<pc, fs0, project_type, project_name, project_path,
                template_class, template, gi, exc, caught, registry, calls, ui>>

CallCreateFolderStructure ==
    /\ pc = "call" /\ Len(api) < MaxPrimCalls
    /\ \E extra \in ExtraInputs :
          LET r == create_folder_structure(BaseInstance, fs, extra)
          IN  /\ fs' = r.fs
              /\ api' = Append(api, PrimCall("create_folder_structure", extra, fs, r))
    /\ PrimFrame

CallCreatePyprojectToml ==
    /\ pc = "call" /\ Len(api) < MaxPrimCalls
    /\ \E deps \in DepInputs :
          LET r == create_pyproject_toml(BaseInstance, fs, deps)
          IN  /\ fs' = r.fs
              /\ api' = Append(api, PrimCall("create_pyproject_toml", deps, fs, r))
    /\ PrimFrame

CallCreateReadme ==
    /\ pc = "call" /\ Len(api) < MaxPrimCalls
    /\ \E content \in ReadmeInputs :
          LET r == create_readme(BaseInstance, fs, content)
          IN  /\ fs' = r.fs
              /\ api' = Append(api, PrimCall("create_readme", content, fs, r))
    /\ PrimFrame

\* template_class(project_name, temp_project_dir).generate()
CallGenerate ==
    /\ pc = "call" /\ Len(api) < MaxPrimCalls
    /\ \E k \in RegistryKeys :
          LET self == ProjectTemplate_init(get_template_class(k).value,
                                           project_name, project_path)
              r    == RunSteps(self, fs, generate(self))
          IN  /\ fs' = r.fs
              /\ api' = Append(api, PrimCall("generate", self.cls, fs, r))
    /\ PrimFrame

\* ProjectTemplate(project_name, temp_project_dir).generate()
CallBaseGenerate ==
    /\ pc = "call" /\ Len(api) < MaxPrimCalls
    /\ LET r == RunSteps(BaseInstance, fs, generate(BaseInstance))
       IN  /\ fs' = r.fs
           /\ api' = Append(api, PrimCall("generate", BaseInstance.cls, fs, r))
    /\ PrimFrame

NextPrimitives ==
    \/ CallBaseGenerate
    \/ CallCreateFolderStructure
    \/ CallCreatePyprojectToml
    \/ CallCreateReadme
    \/ CallGenerate

SpecPrimitives == InitPrimitives /\ [][NextPrimitives]_vars

-----------------------------------------------------------------------------
(* Properties *)

RegisteredKeys == {"1", "2", "3", "4", "5"}

ClassCalls == {i \in 1..Len(api) : api[i].fn = "get_template_class"}
ListCalls  == {i \in 1..Len(api) : api[i].fn = "get_template_list"}

\* C1: get_template_class raises the 'Unknown template' ValueError carrying
\* the exact key for every key that is not one of "1".."5" (empty, padded,
\* "999", "not-a-key"), and returns no class for it.
C1_UnknownKeyRaises ==
    \A i \in ClassCalls :
        api[i].arg \notin RegisteredKeys =>
            /\ api[i].raised
            /\ api[i].exc.type = "ValueError"
            /\ api[i].exc.msg = "Unknown template: " \o api[i].arg
            /\ api[i].value \notin Classes

C1_Witness ==
    \E i \in ClassCalls : api[i].arg = " 1" /\ api[i].raised

\* the recipe constructed for the key the prompt returned
GenerateEntered == template # NoTemplate

\* the target was absent or an empty directory when run_cli started
EmptyTarget ==
    /\ WalkError(fs0, project_path) # "NotADirectoryError"
    /\ ~ is_file(fs0, project_path)
    /\ ~ \E q \in DOMAIN fs0 : IsUnder(q, project_path)

\* the folders the recipe passes to create_folder_structure
ExtraFolders(self) ==
    LET g == generate(self)
        i == CHOOSE j \in 1..Len(g) : g[j].op = "create_folder_structure"
    IN  g[i].folders

RequiredFiles ==
    { <<"pyproject.toml">>, <<"README.md">>, <<".gitignore">>,
      <<"tests", "test_basic.py">>, <<"tests", "__init__.py">>,
      <<"src", "__init__.py">> }

SeqRange(q) == {q[i] : i \in 1..Len(q)}

\* C2: for each registered key, generate() of the recipe built on an empty
\* target runs to its end without raising and leaves the six common files,
\* every folder of COMMON_FOLDERS and every extra folder of the archetype.
C2_GenerateOnEmptyTarget ==
    (GenerateEntered /\ EmptyTarget) =>
        /\ project_type \in RegisteredKeys
        /\ template.cls = dict_getitem(registry, project_type)
        /\ exc = NoExc /\ caught = NoExc
        /\ pc \in {"generate", "display_success", "returned"}
        /\ pc = "generate" => gi \in 1..Len(generate(template))
        /\ pc \in {"display_success", "returned"} =>
              /\ \A p \in RequiredFiles : is_file(fs, project_path \o p)
              /\ \A d \in SeqRange(COMMON_FOLDERS) \cup SeqRange(ExtraFolders(template)) :
                    is_dir(fs, project_path \o d)

C2_Witness ==
    /\ pc = "returned"
    /\ EmptyTarget
    /\ template.cls = "DataScienceTemplate"
    /\ is_dir(fs, project_path \o <<"data", "processed">>)
    /\ Count(ui, "display_success") = 1

\* C3: with a key absent from the registry the filesystem is never changed
\* by run_cli, and the run that reaches the lookup reports the error.
C3_UnknownKeyNoMutation ==
    (pc \notin {"start", "get_project_type"}
        /\ ~ dict_contains(registry, project_type)) =>
        /\ fs = fs0
        /\ caught # NoExc => Count(ui, "display_error") = 1

ValidateCalls == {i \in 1..Len(api) : api[i].fn = "validate_project_name"}

\* C4: validate_project_name returns True for every non-empty name made of
\* characters of [A-Za-z0-9_-] only, names of underscores/hyphens included.
C4_CharsetNamesAccepted ==
    \A i \in ValidateCalls :
        (/\ Len(api[i].arg) >= 1
         /\ \A j \in 1..Len(api[i].arg) : api[i].arg[j] \in SpecCharset)
            => api[i].value = TRUE

\* C5: validate_project_name returns False for the empty name and for every
\* name with a character outside [A-Za-z0-9_-], non-ASCII letters and
\* digits included.
C5_OtherNamesRejected ==
    \A i \in ValidateCalls :
        (\/ api[i].arg = <<>>
         \/ \E j \in 1..Len(api[i].arg) : api[i].arg[j] \notin SpecCharset)
            => api[i].value = FALSE

\* C6: get_template_list returns one record per registry entry in the order
\* "1","2","3","4","5", and the name and description of each record are
\* those of the class get_template_class returns for the record's key.
C6_ListInDeclarationOrder ==
    \A i \in ListCalls :
        LET v == api[i].value
        IN  /\ Len(v) = Len(TEMPLATE_REGISTRY)
            /\ [j \in 1..Len(v) |-> v[j].key] = <<"1", "2", "3", "4", "5">>
            /\ \A j \in 1..Len(v) : DOMAIN v[j] = {"key", "name", "description"}
            /\ \A j \in 1..Len(v) : \A k \in ClassCalls :
                  api[k].arg = v[j].key =>
                      /\ ~ api[k].raised
                      /\ v[j].name = ClassName[api[k].value]
                      /\ v[j].description = ClassDescription[api[k].value]

C6_Witness ==
    \E i \in ListCalls : \E k \in ClassCalls :
        api[k].arg = "5" /\ api[i].value[5].name = "Simple Py Boilerplate"

ExpectedClass ==
    ("1" :> "RAGAgentTemplate") @@ ("2" :> "FastAPITemplate")
    @@ ("3" :> "DataScienceTemplate") @@ ("4" :> "AutomationTemplate")
    @@ ("5" :> "SimpleBoilerplateTemplate")

\* C7: each registered key resolves to its one class, the same on every
\* call, and two different registered keys resolve to different classes.
C7_KeysMapToDistinctClasses ==
    /\ \A i \in ClassCalls :
          api[i].arg \in RegisteredKeys =>
              ~ api[i].raised /\ api[i].value = ExpectedClass[api[i].arg]
    /\ \A i, j \in ClassCalls :
          (api[i].arg \in RegisteredKeys /\ api[j].arg \in RegisteredKeys) =>
              (api[i].arg = api[j].arg <=> api[i].value = api[j].value)

C7_Witness ==
    \E i, j \in ClassCalls :
        /\ api[i].arg = "4" /\ api[j].arg = "5"
        /\ api[i].value = "AutomationTemplate"
        /\ api[j].value = "SimpleBoilerplateTemplate"

\* C8: an exception raised by get_template_class or by generate() inside
\* run_cli reaches the handler, which calls display_error once with the
\* exception text, never display_success, and run_cli returns normally.
C8_ExceptionsDisplayedNotPropagated ==
    [][ /\ (pc \in {"get_template_class", "generate"} /\ exc' # NoExc)
              => pc' = "except"
        /\ pc = "except" =>
              /\ pc' = "returned"
              /\ caught' = exc
              /\ \E i \in 1..Len(ui') :
                    ui'[i] = Call("display_error", "Error creating project: " \o exc.msg)
              /\ Count(ui', "display_error") = 1
              /\ Count(ui', "display_success") = 0 ]_vars

C8_Witness ==
    /\ pc = "returned"
    /\ caught.type = "RuntimeError"
    /\ Count(ui, "display_error") = 1

Declined == \E i \in 1..Len(ui) : ui[i] = Call("Confirm.ask", "False")

\* C9: once the overwrite confirmation is declined run_cli has returned,
\* the filesystem is as it was, no class was resolved, no recipe built or
\* run, and neither display_success nor display_error was called.
C9_DeclineIsCleanAbort ==
    Declined =>
        /\ pc = "returned"
        /\ exists(fs0, project_path)
        /\ fs = fs0
        /\ template_class = "None"
        /\ template = NoTemplate
        /\ gi = 0
        /\ Count(ui, "display_success") = 0
        /\ Count(ui, "display_error") = 0

C9_Witness ==
    /\ Declined
    /\ pc = "returned"
    /\ is_file(fs, <<"proj", "existing_file.txt">>)

NameChecked == pc \notin {"start", "get_project_type", "get_project_name", "validate"}

\* C10: when validate_project_name fails run_cli calls display_error once
\* and returns: no path prompt, no overwrite confirmation, no change of the
\* filesystem, no display_success.
C10_InvalidNameRejectedEarly ==
    (NameChecked /\ ~ validate_project_name(project_name)) =>
        /\ pc = "returned"
        /\ Count(ui, "display_error") = 1
        /\ Count(ui, "Prompt.ask") = 2
        /\ Count(ui, "Confirm.ask") = 0
        /\ Count(ui, "display_success") = 0
        /\ project_path = <<>>
        /\ template = NoTemplate
        /\ fs = fs0

C10_Witness ==
    /\ pc = "returned"
    /\ project_name = <<"a", " ", "Z">>
    /\ Count(ui, "display_error") = 1

PrimCalls(fn) == {i \in 1..Len(api) : api[i].fn = fn}

OsErrorTypes ==
    {"FileNotFoundError", "FileExistsError", "NotADirectoryError", "IsADirectoryError"}

\* msg is what, a colon and the text of an OS error about a path under base
NamesFailure(ex, what, f, base) ==
    \E t \in OsErrorTypes : \E q \in DOMAIN f :
        /\ ex.cause = t
        /\ ex.msg = what \o ": " \o OsError(t, q).msg

\* C11: create_folder_structure on a tree with a plain file at the path
\* of a folder to create raises RuntimeError 'Failed to create folder
\* structure' with the OS error as cause; create_pyproject_toml with a
\* directory at pyproject.toml raises RuntimeError 'Failed to create
\* pyproject.toml'.
C11_CollisionsAreWrapped ==
    /\ \A i \in PrimCalls("create_folder_structure") :
          (\E d \in SeqRange(COMMON_FOLDERS) \cup SeqRange(api[i].arg) :
               is_file(api[i].before, project_path \o d)) =>
              /\ api[i].raised
              /\ api[i].exc.type = "RuntimeError"
              /\ NamesFailure(api[i].exc, "Failed to create folder structure",
                              api[i].before, project_path)
    /\ \A i \in PrimCalls("create_pyproject_toml") :
          is_dir(api[i].before, project_path \o <<"pyproject.toml">>) =>
              /\ api[i].raised
              /\ api[i].exc.type = "RuntimeError"
              /\ NamesFailure(api[i].exc, "Failed to create pyproject.toml",
                              api[i].before, project_path)

C11_Witness ==
    /\ \E i \in PrimCalls("create_folder_structure") :
          /\ is_file(api[i].before, <<"proj", "notebooks">>)
          /\ api[i].exc.cause = "FileExistsError"
    /\ \E i \in PrimCalls("create_pyproject_toml") :
          api[i].exc.cause = "IsADirectoryError"

\* C12: an exception that leaves generate() because a path to write exists
\* as the wrong kind of entry is the wrapping RuntimeError with a message
\* and the OS error as its cause, never the bare OS error.
C12_GenerateFailuresWrapped ==
    (GenerateEntered /\ exc # NoExc) =>
        /\ exc.type = "RuntimeError"
        /\ exc.cause \in OsErrorTypes

\* the position of a statement in the order the specification fixes
Phase(op) ==
    CASE op = "console.print"           -> 0
      [] op = "create_folder_structure" -> 1
      [] op = "create_pyproject_toml"   -> 2
      [] op \in {"open_w", "touch"}     -> 3
      [] op = "create_src_init"         -> 4
      [] op = "create_readme"           -> 5
      [] op = "create_gitignore"        -> 6
      [] op = "create_basic_test"       -> 7

IsWork(s) == s.op # "console.print"

\* the statements executed so far, the console output left out
Work == SelectSeq(calls, IsWork)

GenerateReturned ==
    GenerateEntered /\ pc \in {"display_success", "returned"} /\ caught = NoExc

\* C13: generate() of every archetype runs create_folder_structure,
\* create_pyproject_toml, its own file writers, create_src_init,
\* create_readme, create_gitignore and create_basic_test in this order,
\* each once, and a call that returns has run all of them.
C13_StepsInFixedOrder ==
    /\ \A i, j \in 1..Len(Work) :
          i < j =>
              /\ Phase(Work[i].op) <= Phase(Work[j].op)
              /\ Phase(Work[i].op) = Phase(Work[j].op) =>
                    /\ Phase(Work[i].op) = 3
                    /\ Work[i].path # Work[j].path
    /\ \A i \in 1..Len(Work) : \A k \in 1..(Phase(Work[i].op) - 1) :
          \E j \in 1..(i - 1) : Phase(Work[j].op) = k
    /\ GenerateReturned => \E i \in 1..Len(Work) : Phase(Work[i].op) = 7

C13_Witness ==
    /\ GenerateReturned
    /\ template.cls = "AutomationTemplate"
    /\ Len(Work) = 10

\* the files a statement of generate() writes, relative to the project
StepTargets(s) ==
    CASE s.op \in {"open_w", "touch"}      -> {s.path}
      [] s.op = "create_pyproject_toml"    -> {<<"pyproject.toml">>}
      [] s.op = "create_src_init"          -> {<<"src", "__init__.py">>}
      [] s.op = "create_readme"            -> {<<"README.md">>}
      [] s.op = "create_gitignore"         -> {<<".gitignore">>}
      [] s.op = "create_basic_test"        -> {<<"tests", "test_basic.py">>,
                                               <<"tests", "__init__.py">>}
      [] OTHER                             -> {}

\* C14: in a generate() call every statement that writes a file runs after
\* create_folder_structure has returned, and the directory it writes into
\* is the project root, a common folder or a declared extra folder.
C14_WritesIntoCreatedFolders ==
    \A i \in 1..Len(calls) : \A p \in StepTargets(calls[i]) :
        /\ \E j \in 1..(i - 1) : calls[j].op = "create_folder_structure"
        /\ \/ Parent(p) = << >>
           \/ Parent(p) \in SeqRange(COMMON_FOLDERS)
                               \cup SeqRange(ExtraFolders(template))

C14_Witness ==
    /\ GenerateReturned
    /\ template.cls = "RAGAgentTemplate"
    /\ \E i \in 1..Len(calls) : calls[i].path = <<"streamlit_app", "app.py">>
    /\ is_file(fs, project_path \o <<"scripts", "generate_data.py">>)

\* the lines of an array of the manifest: those after its opening line up
\* to the next closing bracket
ArrayOf(m, opening) ==
    LET a == CHOOSE i \in 1..Len(m) : m[i] = opening
        b == CHOOSE i \in (a + 1)..Len(m) :
                 m[i] = "]" /\ \A j \in (a + 1)..(i - 1) : m[j] # "]"
    IN  SubSeq(m, a + 1, b - 1)

ManifestPath == project_path \o <<"pyproject.toml">>

\* the create_pyproject_toml statement of the running generate() has returned
ManifestWritten ==
    \E i \in 1..(Len(calls) - 1) : calls[i].op = "create_pyproject_toml"

AuthoredDependencies ==
    calls[CHOOSE i \in 1..Len(calls) : calls[i].op = "create_pyproject_toml"].content

\* C15: the manifest generate() wrote names the project, carries the fixed
\* runtime-version constraint and build backend, lists the archetype's
\* dependencies in authored order (none for the minimal boilerplate) and
\* lists every fixed dev-tooling dependency.
C15_ManifestContents ==
    ManifestWritten =>
        /\ is_file(fs, ManifestPath)
        /\ LET m == fs[ManifestPath].content
           IN  /\ "name = \"" \o Str(project_name) \o "\"" \in SeqRange(m)
               /\ "requires-python = \">=3.10\"" \in SeqRange(m)
               /\ "build-backend = \"hatchling.build\"" \in SeqRange(m)
               /\ Len(SelectSeq(m, LAMBDA l : l = "dependencies = [")) = 1
               /\ Len(SelectSeq(m, LAMBDA l : l = "dev = [")) = 1
               /\ ArrayOf(m, "dependencies = [") = AuthoredDependencies
               /\ template.cls = "SimpleBoilerplateTemplate"
                     => ArrayOf(m, "dependencies = [") = << >>
               /\ template.cls = "FastAPITemplate"
                     => /\ Len(ArrayOf(m, "dependencies = [")) = 9
                        /\ ArrayOf(m, "dependencies = [")[1] = "\"fastapi>=0.104.0\""
                        /\ ArrayOf(m, "dependencies = [")[9] = "\"python-multipart>=0.0.6\""
               /\ ArrayOf(m, "dev = [") =
                     << "\"pytest>=7.4.0\"", "\"pytest-cov>=4.1.0\"",
                        "\"black>=23.7.0\"", "\"ruff>=0.0.285\"",
                        "\"ipykernel>=7.1.0\"" >>

C15_Witness ==
    /\ GenerateReturned
    /\ template.cls = "SimpleBoilerplateTemplate"
    /\ project_name = <<"Z", "-", "7">>
    /\ ArrayOf(fs[ManifestPath].content, "dependencies = [") = << >>
    /\ Len(ArrayOf(fs[ManifestPath].content, "dev = [")) = 5

\* the starter files that tell the archetypes apart
StarterFiles(cls) ==
    CASE cls = "FastAPITemplate" ->
             { <<"src", "main.py">>, <<"Dockerfile">>, <<"docker-compose.yml">> }
      [] cls = "RAGAgentTemplate" ->
             { <<"streamlit_app", "app.py">>, <<"src", "agents", "rag_agent.py">>,
               <<"scripts", "generate_data.py">>, <<".env.example">> }
      [] cls = "DataScienceTemplate" ->
             { <<"src", "data", "loader.py">>, <<"src", "models", "train.py">>,
               <<"src", "models", "serve.py">> }
      [] cls = "AutomationTemplate" ->
             { <<"src", "cli.py">>, <<"src", "tasks", "file_organizer.py">>,
               <<"src", "tasks", "web_scraper.py">> }
      [] cls = "SimpleBoilerplateTemplate" ->
             { <<"src", "main.py">> }

\* C16: when generate() has returned on a target that was empty, every
\* starter file of the archetype is a file at its declared path, and the
\* Web API manifest names the project and lists fastapi and uvicorn.
C16_StarterFilesExist ==
    (GenerateReturned /\ EmptyTarget) =>
        /\ \A p \in StarterFiles(template.cls) : is_file(fs, project_path \o p)
        /\ template.cls = "FastAPITemplate" =>
              LET deps == ArrayOf(fs[ManifestPath].content, "dependencies = [")
              IN  /\ "name = \"" \o Str(project_name) \o "\""
                        \in SeqRange(fs[ManifestPath].content)
                  /\ "\"fastapi>=0.104.0\"" \in SeqRange(deps)
                  /\ "\"uvicorn[standard]>=0.24.0\"" \in SeqRange(deps)

C16_Witness ==
    /\ GenerateReturned /\ EmptyTarget
    /\ template.cls = "FastAPITemplate"
    /\ is_file(fs, project_path \o <<"Dockerfile">>)
    /\ is_file(fs, project_path \o <<"docker-compose.yml">>)
    /\ fs[project_path \o <<"src", "main.py">>].content = <<"from fastapi import FastAPI">>

\* run_cli asked for the overwrite and was told to go on
OverwriteConfirmed == \E i \in 1..Len(ui) : ui[i] = Call("Confirm.ask", "True")

\* an entry of f has another kind than generate() of self gives its path:
\* a file where a folder goes, or a directory where a file is written
KindCollision(f, self) ==
    LET g == generate(self)
    IN  \/ \E d \in SeqRange(COMMON_FOLDERS) \cup SeqRange(ExtraFolders(self)) :
              \E n \in 1..Len(d) : is_file(f, self.project_path \o Prefix(d, n))
        \/ \E i \in 1..Len(g) : \E p \in StepTargets(g[i]) :
              is_dir(f, self.project_path \o p)

\* C17: nothing that existed when run_cli started is ever removed or turned
\* into another kind of entry; and a run that was told to overwrite an
\* existing directory, for a registered key and a tree without a kind
\* collision, ends with generate() returned and one success display.
C17_OverwriteKeepsExistingEntries ==
    /\ \A q \in DOMAIN fs0 : q \in DOMAIN fs /\ fs[q].kind = fs0[q].kind
    /\ ( /\ pc = "returned"
         /\ OverwriteConfirmed
         /\ project_type \in RegisteredKeys
         /\ ~ KindCollision(fs0, ProjectTemplate_init(
                   dict_getitem(registry, project_type), project_name, project_path)) )
       => /\ is_dir(fs0, project_path)
          /\ GenerateReturned
          /\ Count(ui, "display_success") = 1
          /\ Count(ui, "display_error") = 0

C17_Witness ==
    /\ pc = "returned" /\ OverwriteConfirmed /\ GenerateReturned
    /\ fs0 = PreviousRun("FastAPITemplate")
    /\ template.cls = "AutomationTemplate"
    /\ is_file(fs, project_path \o <<"Dockerfile">>)
    /\ is_file(fs, project_path \o <<"src", "cli.py">>)
    /\ Count(ui, "display_success") = 1

\* the call that has just returned
LastCall == api[Len(api)]

\* C18: when create_folder_structure(extra) has returned without raising,
\* every folder of COMMON_FOLDERS and of extra is a directory, and each of
\* them with no subfolder among those folders and no subdirectory on disk
\* holds a .gitkeep file of zero bytes.
C18_FoldersAndMarkers ==
    ( /\ Len(api) > 0
      /\ LastCall.fn = "create_folder_structure"
      /\ ~ LastCall.raised ) =>
        LET all == COMMON_FOLDERS \o LastCall.arg
        IN  \A d \in SeqRange(all) :
               /\ is_dir(fs, project_path \o d)
               /\ ( /\ ~ HasSubfolderInList(d, all)
                    /\ ~ HasActualSubdir(fs, project_path \o d) )
                  => /\ is_file(fs, project_path \o d \o <<".gitkeep">>)
                     /\ fs[project_path \o d \o <<".gitkeep">>].content = << >>

C18_Witness ==
    /\ Len(api) > 0
    /\ LastCall.fn = "create_folder_structure"
    /\ ~ LastCall.raised
    /\ LastCall.arg = << <<"custom_folder">>, <<"another", "custom">> >>
    /\ is_file(fs, <<"proj", "custom_folder", ".gitkeep">>)
    /\ is_file(fs, <<"proj", "another", "custom", ".gitkeep">>)
    /\ is_file(fs, <<"proj", "artifacts", "wip", ".gitkeep">>)
    /\ is_dir(fs, <<"proj", "artifacts">>)
    /\ ~ exists(fs, <<"proj", "artifacts", ".gitkeep">>)

\* C19: no step of run_cli (the listing, the type prompt, the lookup whether
\* it succeeds or raises, the construction, the statements of generate())
\* adds, removes or rebinds an entry of the registry, so the list and
\* every lookup give the same result after the step as before it.
C19_RegistryReadOnly ==
    [][ /\ registry' = registry
        /\ get_template_list' = get_template_list
        /\ \A k \in KeyInputs : get_template_class(k)' = get_template_class(k)
      ]_vars

C19_Witness ==
    /\ pc = "returned"
    /\ project_type = "999"
    /\ caught.type = "ValueError"
    /\ registry = TEMPLATE_REGISTRY
    /\ Len(get_template_list) = 5
    /\ get_template_class("999").raised

ReadmePath == project_path \o <<"README.md">>

\* the string the recipe of class cls hands to create_readme
AssembledReadme(cls) ==
    LET self == ProjectTemplate_init(cls, project_name, project_path)
        g    == generate(self)
    IN  g[CHOOSE i \in 1..Len(g) : g[i].op = "create_readme"].content

Folders(f) == {q \in DOMAIN f : f[q].kind = "dir"}

IsMarker(q) == Len(q) > 0 /\ q[Len(q)] = ".gitkeep"

\* the last two calls were create_folder_structure with the same argument,
\* and the first of them returned
CalledTwice ==
    /\ Len(api) >= 2
    /\ LastCall.fn = "create_folder_structure"
    /\ api[Len(api) - 1].fn = "create_folder_structure"
    /\ api[Len(api) - 1].arg = LastCall.arg
    /\ ~ api[Len(api) - 1].raised

\* C21: a second create_folder_structure with the same argument, right
\* after one that returned, returns too and leaves the folders the first
\* call left, neither more nor fewer; no entry changes its kind and no
\* file other than a marker changes.
C21_FolderCreationIdempotent ==
    CalledTwice =>
        /\ ~ LastCall.raised
        /\ Folders(fs) = Folders(LastCall.before)
        /\ DOMAIN fs = DOMAIN LastCall.before
        /\ \A q \in DOMAIN fs : ~ IsMarker(q) => fs[q] = LastCall.before[q]

C21_Witness ==
    /\ CalledTwice
    /\ ~ LastCall.raised
    /\ LastCall.arg = << <<"custom_folder">>, <<"another", "custom">> >>
    /\ is_dir(LastCall.before, <<"proj", "another", "custom">>)
    /\ is_dir(fs, <<"proj", "another", "custom">>)
    /\ Folders(fs) = Folders(LastCall.before)

\* C22: generate() of the base ProjectTemplate raises NotImplementedError
\* 'Subclasses must implement generate' and leaves the tree as it was;
\* generate() of a class of the registry has its own body and never raises
\* NotImplementedError.
C22_BaseGenerateNotImplemented ==
    /\ \A i \in PrimCalls("generate") :
          IF api[i].arg = "ProjectTemplate"
          THEN /\ api[i].raised
               /\ api[i].exc = Raise("NotImplementedError",
                                     "Subclasses must implement generate")
               /\ api[i].after = api[i].before
          ELSE /\ api[i].arg \in Classes
               /\ api[i].exc.type # "NotImplementedError"
    /\ \A k \in RegistryKeys :
          LET self == ProjectTemplate_init(get_template_class(k).value,
                                           project_name, project_path)
          IN  \A j \in 1..Len(generate(self)) : generate(self)[j].op # "raise"

C22_Witness ==
    /\ Len(api) = 2
    /\ api[1].fn = "generate" /\ api[1].arg = "SimpleBoilerplateTemplate"
    /\ ~ api[1].raised
    /\ LastCall.fn = "generate" /\ LastCall.arg = "ProjectTemplate"
    /\ LastCall.exc.type = "NotImplementedError"
    /\ fs = LastCall.before

\* C23: no exception leaves run_cli: every failure after the inputs are
\* collected, the creation of the target directory included, ends in the
\* handler, which displays one error, and run_cli returns.
C23_AllFailuresDisplayed ==
    /\ pc # "raised"
    /\ exc # NoExc => pc = "except"
    /\ (pc = "returned" /\ caught # NoExc) => Count(ui, "display_error") = 1

\* the last statement of the recipe: its success line
SuccessLine(self) == generate(self)[Len(generate(self))].content[1]

\* a statement of generate() has raised
GenerateFailed == GenerateEntered /\ (exc # NoExc \/ caught # NoExc)

\* C24: a statement of generate() that raises ends generate(): the
\* exception goes to the caller as it is, every entry the earlier
\* statements left is still there unchanged, no later statement runs, the
\* success line of the recipe is not printed and nothing is cleaned up.
C24_FailFastNoRollback ==
    [][ /\ (pc = "generate" /\ exc' # NoExc) =>
              /\ pc' = "except"
              /\ exc' = Exec(template, fs, generate(template)[gi]).exc
              /\ \A q \in DOMAIN fs : q \in DOMAIN fs' /\ fs'[q] = fs[q]
        /\ GenerateFailed =>
              /\ fs' = fs
              /\ calls' = calls
              /\ Len(calls) = gi
              /\ gi < Len(generate(template))
              /\ calls = SubSeq(generate(template), 1, gi)
              /\ \A i \in 1..Len(ui') :
                    ui'[i] # Call("console.print", SuccessLine(template))
              /\ Count(ui', "display_success") = 0
      ]_vars

C24_Witness ==
    /\ pc = "returned"
    /\ GenerateFailed
    /\ template.cls = "FastAPITemplate"
    /\ caught.type = "IsADirectoryError"
    /\ Len(calls) = 9
    /\ calls[9].path = <<"Dockerfile">>
    /\ is_file(fs, project_path \o <<"src", "main.py">>)
    /\ is_file(fs, project_path \o <<"pyproject.toml">>)
    /\ ~ exists(fs, project_path \o <<"docker-compose.yml">>)
    /\ ~ exists(fs, project_path \o <<"README.md">>)

\* the tree generate() of class cls leaves on an empty project directory
Alone(cls) ==
    LET self == ProjectTemplate_init(cls, project_name, project_path)
    IN  RunSteps(self, Proj, generate(self)).fs

\* generate() of B has been called on the tree generate() of A left on an
\* empty project directory
RanOneAfterTheOther ==
    /\ Len(api) = 2
    /\ api[1].fn = "generate" /\ api[1].arg \in Classes
    /\ api[2].fn = "generate" /\ api[2].arg \in Classes
    /\ api[1].before = Proj
    /\ ~ api[1].raised

\* the markers B alone puts in folders that hold a subdirectory in A's tree
SkippedMarkers(A, B) ==
    {q \in DOMAIN Alone(B) : IsMarker(q) /\ HasActualSubdir(Alone(A), Parent(q))}

\* C25 as stated: generate() of B on the tree a successful generate() of A
\* left returns, and the paths on disk are then the union of the paths of
\* A's and of B's output.
C25_RerunGivesUnion ==
    RanOneAfterTheOther =>
        /\ ~ api[2].raised
        /\ DOMAIN fs = DOMAIN Alone(api[1].arg) \cup DOMAIN Alone(api[2].arg)

\* C25 as amended: generate() of B on the tree a successful generate() of
\* A left returns, no path changes its kind, and the paths on disk are the
\* paths of A's output and those of B's output other than the markers of
\* folders that hold a subdirectory in A's tree; for A = B these are the
\* paths of one run.
C25_RerunGivesUnionButMarkers ==
    RanOneAfterTheOther =>
        LET A == api[1].arg
            B == api[2].arg
        IN  /\ ~ api[2].raised
            /\ DOMAIN fs = DOMAIN Alone(A)
                              \cup (DOMAIN Alone(B) \ SkippedMarkers(A, B))
            /\ \A q \in DOMAIN fs \cap DOMAIN Alone(A) : fs[q].kind = Alone(A)[q].kind
            /\ \A q \in DOMAIN fs \cap DOMAIN Alone(B) : fs[q].kind = Alone(B)[q].kind
            /\ A = B => DOMAIN fs = DOMAIN Alone(A)

C25_Witness ==
    /\ RanOneAfterTheOther
    /\ api[1].arg = "DataScienceTemplate"
    /\ api[2].arg = "SimpleBoilerplateTemplate"
    /\ ~ api[2].raised
    /\ is_file(fs, <<"proj", "src", "data", "loader.py">>)
    /\ is_file(fs, <<"proj", "src", "main.py">>)
    /\ <<"proj", "src", ".gitkeep">> \in SkippedMarkers("DataScienceTemplate",
                                                       "SimpleBoilerplateTemplate")
    /\ ~ exists(fs, <<"proj", "src", ".gitkeep">>)

Interrupted == exc.type = "KeyboardInterrupt"

ValidNames == {n \in NameInputs : validate_project_name(n)}

\* the files whose text holds the project name
NameDependent ==
    { project_path \o <<"pyproject.toml">>, project_path \o <<"README.md">>,
      project_path \o <<"src", "__init__.py">> }

\* the tree generate() of class cls leaves on tree f when the project is
\* named n
TreeFor(cls, n, f) ==
    LET self == ProjectTemplate_init(cls, n, project_path)
    IN  RunSteps(self, f, generate(self)).fs

\* C27: the tree generate() leaves for one valid project name and the tree
\* it leaves, from the same start, for any other valid name have the same
\* paths, and every entry other than pyproject.toml, README.md and
\* src/__init__.py is the same in both: starter files, .gitignore, markers.
C27_NameOnlyInThreeFiles ==
    ( /\ Len(api) > 0
      /\ LastCall.fn = "generate" /\ LastCall.arg \in Classes
      /\ ~ LastCall.raised ) =>
        \A n \in ValidNames :
            LET other == TreeFor(LastCall.arg, n, LastCall.before)
            IN  /\ DOMAIN other = DOMAIN fs
                /\ \A q \in DOMAIN fs \ NameDependent : other[q] = fs[q]
                /\ n # project_name =>
                      \A q \in NameDependent : other[q] # fs[q]

C27_Witness ==
    /\ Len(api) = 1
    /\ LastCall.fn = "generate" /\ LastCall.arg = "FastAPITemplate"
    /\ ~ LastCall.raised
    /\ project_name = <<"Z", "-", "7">>
    /\ <<"a">> \in ValidNames
    /\ fs[<<"proj", "Dockerfile">>] = TreeFor("FastAPITemplate", <<"a">>, Proj)[<<"proj", "Dockerfile">>]
    /\ fs[<<"proj", "README.md">>] # TreeFor("FastAPITemplate", <<"a">>, Proj)[<<"proj", "README.md">>]

\* the prompts run_cli has shown, in order
Prompts == SelectSeq(ui, LAMBDA c : c.fn = "Prompt.ask")

PromptOrder ==
    << Call("Prompt.ask", "[cyan]Select project type[/cyan]"),
       Call("Prompt.ask", "[cyan]Enter project name[/cyan]"),
       Call("Prompt.ask", "[cyan]Enter project path[/cyan]") >>

\* run_cli is past its test of the entered path and the confirmation
PathChecked == Len(Prompts) = 3 /\ pc \notin {"exists", "confirm_overwrite"}

\* project_path.exists() when run_cli started
TargetExisted == WalkError(fs0, project_path) = "None" /\ exists(fs0, project_path)

\* C28: the prompts come in the order key, name, path; once the path is
\* tested the confirmation has been asked exactly when the path existed;
\* nothing on disk changes before that; and the lookup, the construction
\* and generate() run with the target directory and its parents in place.
C28_InputOrderAndConfirmation ==
    /\ Prompts = SubSeq(PromptOrder, 1, Len(Prompts))
    /\ Count(ui, "Confirm.ask") <= 1
    /\ PathChecked => (Count(ui, "Confirm.ask") = 1 <=> TargetExisted)
    /\ ~ PathChecked => (fs = fs0 /\ Count(ui, "Confirm.ask") = 0)
    /\ fs # fs0 => (TargetExisted => OverwriteConfirmed)
    /\ (pc \in {"get_template_class", "construct", "generate"} \/ GenerateEntered) =>
          /\ \A n \in 1..Len(project_path) : is_dir(fs, Prefix(project_path, n))
          /\ PathChecked

C28_Witness ==
    /\ pc = "returned" /\ GenerateReturned
    /\ project_path = <<"out", "proj">>
    /\ ~ exists(fs0, <<"out">>)
    /\ Count(ui, "Confirm.ask") = 0
    /\ is_dir(fs, <<"out">>) /\ is_dir(fs, <<"out", "proj">>)
    /\ Count(ui, "display_success") = 1

InvalidNameOutcome ==
    /\ ui[Len(ui)] = Call("display_error", "Error: Project name should contain only letters, numbers, hyphens, and underscores")
    /\ ~ validate_project_name(project_name)
    /\ ~ GenerateEntered /\ fs = fs0

CancelledOutcome ==
    /\ ui[Len(ui)] = Call("console.print", "[yellow]Operation cancelled[/yellow]")
    /\ ~ GenerateEntered /\ fs = fs0

SuccessOutcome ==
    /\ ui[Len(ui)] = Call("display_success", Str(project_name) \o " " \o PathStr(project_path))
    /\ caught = NoExc

GenerationErrorOutcome ==
    /\ caught # NoExc
    /\ \E i \in 1..Len(ui) :
          ui[i] = Call("display_error", "Error creating project: " \o caught.msg)

Outcomes ==
    << InvalidNameOutcome, CancelledOutcome, SuccessOutcome, GenerationErrorOutcome >>

\* C29: a run_cli that has returned ended in exactly one of: invalid name,
\* cancelled, success, generation error.  display_success is called at
\* most once, and only with the recipe constructed from the entered key,
\* name and path and every statement of its generate() run without an
\* exception; display_success and display_error are never both called.
C29_ExactlyOneOutcome ==
    /\ pc = "returned" =>
          Cardinality({i \in 1..4 : Outcomes[i]}) = 1
    /\ Count(ui, "display_success") <= 1
    /\ Count(ui, "display_error") <= 1
    /\ ~ (Count(ui, "display_success") > 0 /\ Count(ui, "display_error") > 0)
    /\ Count(ui, "display_success") = 1 =>
          /\ pc = "returned"
          /\ caught = NoExc /\ exc = NoExc
          /\ dict_contains(registry, project_type)
          /\ template = ProjectTemplate_init(dict_getitem(registry, project_type),
                                             project_name, project_path)
          /\ calls = generate(template)

C29_Witness ==
    /\ pc = "returned"
    /\ SuccessOutcome
    /\ ~ InvalidNameOutcome /\ ~ CancelledOutcome /\ ~ GenerationErrorOutcome
    /\ template.cls = "DataScienceTemplate"
    /\ calls = generate(template)
    /\ Count(ui, "display_success") = 1

\* C30: the choices get_project_type offers are the keys of the registry in
\* declaration order and the default is one of them; the key the prompt
\* returns is a key of the registry, so get_template_class returns a class
\* for it and 'Unknown template' is never raised.
C30_PromptedKeyResolves ==
    /\ valid_choices = << "1", "2", "3", "4", "5" >>
    /\ valid_choices = dict_keys(TEMPLATE_REGISTRY)
    /\ \E i \in 1..Len(valid_choices) : valid_choices[i] = ProjectTypeDefault
    /\ pc \notin {"start", "get_project_type"} =>
          /\ dict_contains(registry, project_type)
          /\ ~ get_template_class(project_type).raised
    /\ exc.type # "ValueError" /\ caught.type # "ValueError"
    /\ \A i \in 1..Len(ui) :
          ui[i] # Call("display_error", "Error creating project: Unknown template: "
                                           \o project_type)

C30_Witness ==
    /\ pc = "returned"
    /\ project_type = "1"
    /\ template_class = "RAGAgentTemplate"
    /\ GenerateReturned
    /\ Count(ui, "display_success") = 1

====
